---- MODULE Spec2Model ----
(***************************************************************************)
(* Model of the hook dispatch engine of gatewayd (package hook):           *)
(* Config.Add and Config.Run over the registry                             *)
(* hooks : map[Type]map[Priority]HookDef.                                  *)
(*                                                                         *)
(* A Run is split at its only suspension points, the callback              *)
(* invocations: RunEnter (nil check, cast, priority snapshot), LoopInvoke  *)
(* (the call of a hook), HookReturn (verification and the policy switch),  *)
(* RunExit (post-loop removal and return).                                 *)
(***************************************************************************)
EXTENDS Integers, Sequences, FiniteSets, TLC

\* ------------------------------------------------------------------ bounds
\* at most MaxHooks callbacks are registered at any time
MaxHooks == 3
\* at most MaxConcOps operations of other goroutines interleave with one Run
MaxConcOps == 1

\* --------------------------------------------------------------- constants
Types == {"onNewLogger", "onTick"}
\* the priorities hooks are registered at
Priorities == {0, 1, 2}

PassDown == "PassDown"
Ignore == "Ignore"
Abort == "Abort"
Remove == "Remove"
\* config.Policy is an open type: any other value reaches the default branch.
OtherPolicy == "Other"
Policies == {PassDown, Ignore, Abort, Remove, OtherPolicy}

\* Top-level keys and leaf values of the payloads.
Keys == {"test", "test1"}
\* native leaves: a string, a time.Duration, a value structpb cannot encode
NativeVals == {"str", "dur", "chan"}
\* structured leaves: a string, a number
StructVals == {"str", "num"}

EmptyMap == [k \in {} |-> "str"]
\* The payloads the host passes: every value kind under "test", and the
\* key sets {}, {test}, {test1}, {test, test1}.
NativeMaps ==
    {EmptyMap}
    \cup {[k \in {"test"} |-> v] : v \in NativeVals}
    \cup {[k \in {"test1"} |-> "str"], [k \in Keys |-> "str"]}

MapSet(f, k, v) == [x \in (DOMAIN f) \cup {k} |-> IF x = k THEN v ELSE f[x]]
MapDel(f, k) == [x \in (DOMAIN f) \ {k} |-> f[x]]

\* ------------------------------------------------------------ payload codec
\* utils.CastToPrimitiveTypes: durations become numbers, the rest passes.
CastToPrimitiveTypes(a) ==
    [k \in DOMAIN a |-> IF a[k] = "dur" THEN "num" ELSE a[k]]

\* structpb.NewStruct fails on a value it cannot represent.
NewStructFails(a) == \E k \in DOMAIN a : a[k] \notin StructVals

\* A *structpb.Struct: nil, the object params points to, or another object.
NilPtr == [obj |-> "nil", fields |-> EmptyMap]
ParamsPtr == [obj |-> "params", fields |-> EmptyMap]
Own(f) == [obj |-> "own", fields |-> f]

\* Fields of the object a pointer refers to (pf: the fields of params).
Deref(ptr, pf) == IF ptr.obj = "params" THEN pf ELSE ptr.fields

\* (*structpb.Struct).AsMap: a nil receiver yields an empty, non-nil map.
AsMap(ptr, pf) == [isNil |-> FALSE, m |-> Deref(ptr, pf)]
NativeOf(a) == [isNil |-> FALSE, m |-> a]
NilMap == [isNil |-> TRUE, m |-> EmptyMap]

\* utils.Verify(params, result): a non-null result must introduce no
\* top-level key that params does not have; a null result stands for the
\* empty payload and is accepted against empty params only (for the empty
\* payload, Test_HookConfig_Run_Remove has the nil output of priority 0
\* adopted and the output {test: test} of priority 1 rejected).
Verify(pf, result) ==
    IF result.obj = "nil" THEN pf = EmptyMap
    ELSE DOMAIN Deref(result, pf) \subseteq DOMAIN pf

\* ---------------------------------------------------------------- callbacks
\* The behaviours of the registered HookDefs (those of hooks_test.go):
\*   echo  : return args, nil
\*   null  : return nil, nil
\*   err   : return nil, <error>
\*   const : return NewStruct({"test": "test"}), nil
\*   add   : args.Fields["test1"] = "test1"; return args, nil
HookKinds == {"echo", "null", "err", "const", "add"}

\* Outcome of calling a hook of kind k on the pointer in, params holding pf:
\* whether it panics, the result pointer, the error, and the fields of
\* params and of the argument object after the call (add writes in place).
HookCall(k, in, pf) ==
    CASE k = "echo" ->
           [panics |-> FALSE, result |-> in, err |-> FALSE, params |-> pf, arg |-> in]
      [] k = "null" ->
           [panics |-> FALSE, result |-> NilPtr, err |-> FALSE, params |-> pf, arg |-> in]
      [] k = "err" ->
           [panics |-> FALSE, result |-> NilPtr, err |-> TRUE, params |-> pf, arg |-> in]
      [] k = "const" ->
           [panics |-> FALSE, result |-> Own([x \in {"test"} |-> "str"]),
            err |-> FALSE, params |-> pf, arg |-> in]
      [] k = "add" ->
           IF in.obj = "nil" \/ Deref(in, pf) = EmptyMap
           THEN \* nil pointer dereference / assignment to entry in nil map
                [panics |-> TRUE, result |-> NilPtr, err |-> FALSE, params |-> pf, arg |-> in]
           ELSE IF in.obj = "params"
           THEN [panics |-> FALSE, result |-> in, err |-> FALSE,
                 params |-> MapSet(pf, "test1", "str"), arg |-> in]
           ELSE [panics |-> FALSE, result |-> Own(MapSet(in.fields, "test1", "str")),
                 err |-> FALSE, params |-> pf,
                 arg |-> Own(MapSet(in.fields, "test1", "str"))]

\* ------------------------------------------------------------------- state
VARIABLES
    hooks,        \* Config.hooks
    pc,           \* position: idle, added, loop, call, done, panic, fatal
    ctxIsNil,     \* whether Run was called with a nil ctx
    nativeArgs,   \* the payload the host passed to Run
    args,         \* args after CastToPrimitiveTypes
    hookType,     \* Run's hookType
    verification, \* Run's policy
    params,       \* fields of the object params points to
    priorities,   \* the sorted snapshot
    idx,          \* loop index (0-based)
    callee,       \* the HookDef being executed
    returnVal,    \* pointer
    removeList,   \* sequence of priorities
    ret,          \* what Run returned: [val, err]
    cancelled,    \* whether the child scope inheritedCtx has been cancelled
    hooks0,       \* history: the registry before the last Add / when Run was called
    lastAdd,      \* history: the Add just made, if the last operation was an Add
    invoked,      \* history: priorities invoked by this Run, in order
    failed,       \* history: priorities whose output failed verification
    hookErrs,     \* history: priorities whose callback returned an error
    lastIn,       \* history: the payload handed to the hook invoked last
    lastOut,      \* history: the payload the hook that returned last gave back
    concOps,      \* history: operations of other goroutines during this Run
    lateAdds,     \* history: priorities re-Added after their removal was scheduled
    parentCancelled, \* whether the ctx passed to Run has been cancelled
    scopeSeen     \* history: for each invocation, whether its scope was cancelled

vars == <<hooks, pc, ctxIsNil, nativeArgs, args, hookType, verification, params,
          priorities, idx, callee, returnVal, removeList, ret, cancelled,
          hooks0, lastAdd, invoked, failed, hookErrs, lastIn, lastOut,
          concOps, lateAdds,
          parentCancelled, scopeSeen>>

\* The value a pointer refers to, as seen at one moment.
Snap(ptr, pf) == IF ptr.obj = "nil" THEN NilMap ELSE [isNil |-> FALSE, m |-> Deref(ptr, pf)]

NoRet == [val |-> NilMap, err |-> "none"]
NoAdd == [valid |-> FALSE, t |-> "onNewLogger", p |-> 0, f |-> "echo"]

\* h.hooks[t] and its key set (a missing slot reads as empty)
Slot(h, t) == IF t \in DOMAIN h THEN h[t] ELSE [p \in {} |-> "echo"]
SlotKeys(h, t) == DOMAIN Slot(h, t)

\* number of registered callbacks, all hook types together
RECURSIVE SumSlots(_, _)
SumSlots(h, T) ==
    IF T = {} THEN 0
    ELSE LET t == CHOOSE x \in T : TRUE
         IN Cardinality(DOMAIN h[t]) + SumSlots(h, T \ {t})
NumHooks(h) == SumSlots(h, DOMAIN h)

\* Mutant of AddHook: the slot is always built anew, as for an empty slot.
AddHookResets(h, t, p, f) == MapSet(h, t, [x \in {p} |-> f])

\* ------------------------------------------------------------- Config.Add
AddHook(h, t, p, f) ==
    IF Cardinality(SlotKeys(h, t)) = 0
    THEN MapSet(h, t, [x \in {p} |-> f])
    ELSE [h EXCEPT ![t] = MapSet(h[t], p, f)]

\* ------------------------------------------------------------- Config.Run
\* Mutant of NilContext: the nil check is missing.
NilContextUnchecked(ctxNil) == FALSE

\* if ctx == nil { return nil, gerr.ErrNilContext }
NilContext(ctxNil) == ctxNil

\* Mutant of Released: cancel is called before the final return only.
ReleasedAtEndOnly(path) == path = "exit"

\* inheritedCtx, cancel := context.WithCancel(ctx); defer cancel():
\* whether the child scope is cancelled when Run leaves by the given path
\* (cast: the ErrCastFailed return, abort: a return of the Abort branch,
\* exit: the return after the loop, panic: a panic passing through Run).
Released(path) == TRUE

\* Mutant of InheritedScope: the scope is not derived from ctx.
DetachedScope(parentDone, cancelCalled) == cancelCalled

\* inheritedCtx, cancel := context.WithCancel(ctx): the scope handed to the
\* callbacks is done once ctx is done or cancel has been called.
InheritedScope(parentDone, cancelCalled) == parentDone \/ cancelCalled

\* Mutant of CastFails: the error of structpb.NewStruct is dropped.
CastFailsNever(a) == FALSE

\* the else branch of the params construction: structpb.NewStruct fails
CastFails(a) == Cardinality(DOMAIN a) # 0 /\ NewStructFails(a)

\* Mutant of SortPriorities: the comparison is reversed.
RECURSIVE SortPrioritiesDesc(_)
SortPrioritiesDesc(S) ==
    IF S = {} THEN <<>>
    ELSE LET m == CHOOSE x \in S : \A y \in S : x >= y
         IN <<m>> \o SortPrioritiesDesc(S \ {m})

\* the snapshot: the keys of h.hooks[hookType], sort.SliceStable(.., <)
RECURSIVE SortPriorities(_)
SortPriorities(S) ==
    IF S = {} THEN <<>>
    ELSE LET m == CHOOSE x \in S : \A y \in S : x <= y
         IN <<m>> \o SortPriorities(S \ {m})

\* Mutant of Adopts: the PassDown disjunct is missing.
AdoptsVerifyOnly(pf, result, v) == Verify(pf, result)

\* Mutant of Adopts: && in place of ||.
AdoptsBoth(pf, result, v) == Verify(pf, result) /\ v = PassDown

\* if utils.Verify(params, result) || verification == config.PassDown
Adopts(pf, result, v) == Verify(pf, result) \/ v = PassDown

\* The branches of the policy switch. Each yields whether Run returns at
\* once, the new returnVal and removeList, and the value returned if so.
\* i: idx, prio: the priority, a: args, rv: returnVal, result: the hook's
\* result, rl: removeList, pf: the fields of params.
\* Mutant of OnIgnore: params is not restored when the first hook fails.
OnIgnoreKeeps(i, rv, rl) ==
    [exit |-> FALSE, returnVal |-> rv, removeList |-> rl, ret |-> NoRet]

\* Mutant of OnIgnore: the chain stops at the failing hook.
OnIgnoreExits(i, rv, rl) ==
    [exit |-> TRUE, returnVal |-> rv, removeList |-> rl,
     ret |-> [val |-> NativeOf(EmptyMap), err |-> "nil"]]

OnIgnore(i, rv, rl) ==
    [exit |-> FALSE, returnVal |-> IF i = 0 THEN ParamsPtr ELSE rv,
     removeList |-> rl, ret |-> NoRet]

\* Mutants of OnAbort: the callback's failure is returned as Run's error;
\* the chain goes on as under Ignore.
OnAbortPropagates(i, a, rv, rl, pf) ==
    [exit |-> TRUE, returnVal |-> rv, removeList |-> rl,
     ret |-> [val |-> IF i = 0 THEN NativeOf(a) ELSE AsMap(rv, pf), err |-> "HookError"]]

OnAbortContinues(i, a, rv, rl, pf) ==
    [exit |-> FALSE, returnVal |-> IF i = 0 THEN ParamsPtr ELSE rv,
     removeList |-> rl, ret |-> NoRet]

OnAbort(i, a, rv, rl, pf) ==
    [exit |-> TRUE, returnVal |-> rv, removeList |-> rl,
     ret |-> [val |-> IF i = 0 THEN NativeOf(a) ELSE AsMap(rv, pf), err |-> "nil"]]

\* Mutant of OnRemove: the chain stops at the failing hook.
OnRemoveExits(i, prio, rv, rl) ==
    [exit |-> TRUE, returnVal |-> rv, removeList |-> Append(rl, prio),
     ret |-> [val |-> NativeOf(EmptyMap), err |-> "nil"]]

\* Mutant of OnRemove: the failing priority is not put on removeList.
OnRemoveForgets(i, prio, rv, rl) ==
    [exit |-> FALSE, returnVal |-> IF i = 0 THEN ParamsPtr ELSE rv,
     removeList |-> rl, ret |-> NoRet]

OnRemove(i, prio, rv, rl) ==
    [exit |-> FALSE, returnVal |-> IF i = 0 THEN ParamsPtr ELSE rv,
     removeList |-> Append(rl, prio), ret |-> NoRet]

\* case config.PassDown: an empty case; Go does not fall through.
OnPassDown(rv, rl) ==
    [exit |-> FALSE, returnVal |-> rv, removeList |-> rl, ret |-> NoRet]

\* Mutant of OnDefault: the failing output is dropped as under Ignore.
OnDefaultRestores(result, rl) ==
    [exit |-> FALSE, returnVal |-> ParamsPtr, removeList |-> rl, ret |-> NoRet]

\* default: returnVal = result
OnDefault(result, rl) ==
    [exit |-> FALSE, returnVal |-> result, removeList |-> rl, ret |-> NoRet]

\* Mutant of PolicySwitch: Ignore is handled by the Remove branch.
PolicySwitchIgnoreRemoves(v, i, prio, a, rv, result, rl, pf) ==
    CASE v = Ignore -> OnRemove(i, prio, rv, rl)
      [] v = Abort -> OnAbort(i, a, rv, rl, pf)
      [] v = Remove -> OnRemove(i, prio, rv, rl)
      [] v = PassDown -> OnPassDown(rv, rl)
      [] OTHER -> OnDefault(result, rl)

PolicySwitch(v, i, prio, a, rv, result, rl, pf) ==
    CASE v = Ignore -> OnIgnore(i, rv, rl)
      [] v = Abort -> OnAbort(i, a, rv, rl, pf)
      [] v = Remove -> OnRemove(i, prio, rv, rl)
      [] v = PassDown -> OnPassDown(rv, rl)
      [] OTHER -> OnDefault(result, rl)

\* Mutant of DeleteAll: an entry is deleted only while it still holds the
\* callback the Run found there when it took its snapshot.
DeleteAllUnreplaced(h, t, list) ==
    IF t \notin DOMAIN h THEN h
    ELSE [h EXCEPT ![t] =
            [p \in {q \in DOMAIN h[t] :
                      ~(/\ \E i \in 1..Len(list) : list[i] = q
                        /\ q \in SlotKeys(hooks0, t)
                        /\ h[t][q] = Slot(hooks0, t)[q])} |-> h[t][p]]]

\* Mutant of DeleteAll: the whole slot is cleared when the list is not empty.
DeleteAllClearsSlot(h, t, list) ==
    IF list = <<>> \/ t \notin DOMAIN h THEN h
    ELSE [h EXCEPT ![t] = [p \in {} |-> "echo"]]

\* Mutant of DeleteAll: only the first entry of the list is deleted.
DeleteHeadOnly(h, t, list) ==
    IF list = <<>> \/ t \notin DOMAIN h THEN h
    ELSE [h EXCEPT ![t] = MapDel(h[t], Head(list))]

\* for _, prio := range removeList { delete(h.hooks[hookType], prio) }
RECURSIVE DeleteAll(_, _, _)
DeleteAll(h, t, list) ==
    IF list = <<>> THEN h
    ELSE LET h1 == IF t \in DOMAIN h
                   THEN [h EXCEPT ![t] = MapDel(h[t], Head(list))]
                   ELSE h
         IN DeleteAll(h1, t, Tail(list))

\* Mutant of ExitValue: a nil returnVal is returned as a nil map.
ExitValueNil(rv, pf) == IF rv.obj = "nil" THEN NilMap ELSE AsMap(rv, pf)

\* return returnVal.AsMap(), nil
ExitValue(rv, pf) == AsMap(rv, pf)

\* NewHookConfig, and no Run in progress
Init ==
    /\ hooks = [t \in {} |-> [p \in {} |-> "echo"]]
    /\ pc = "idle"
    /\ ctxIsNil = FALSE
    /\ nativeArgs = EmptyMap
    /\ args = EmptyMap
    /\ hookType = "onNewLogger"
    /\ verification = PassDown
    /\ params = EmptyMap
    /\ priorities = <<>>
    /\ idx = 0
    /\ callee = "none"
    /\ returnVal = NilPtr
    /\ removeList = <<>>
    /\ ret = NoRet
    /\ cancelled = FALSE
    /\ hooks0 = hooks
    /\ lastAdd = NoAdd
    /\ invoked = <<>>
    /\ failed = {}
    /\ hookErrs = {}
    /\ lastIn = NilMap
    /\ lastOut = NilMap
    /\ concOps = 0
    /\ lateAdds = {}
    /\ parentCancelled = FALSE
    /\ scopeSeen = <<>>

\* ----------------------------------------------------------------- actions
\* Config.Add
Add(t, p, f) ==
    /\ pc = "idle"
    /\ p \in SlotKeys(hooks, t) \/ NumHooks(hooks) < MaxHooks
    /\ hooks' = AddHook(hooks, t, p, f)
    /\ hooks0' = hooks
    /\ lastAdd' = [valid |-> TRUE, t |-> t, p |-> p, f |-> f]
    /\ pc' = "added"
    /\ UNCHANGED <<ctxIsNil, nativeArgs, args, hookType, verification, params,
                   priorities, idx, callee, returnVal, removeList, ret, cancelled,
                   invoked, failed, hookErrs, lastIn, lastOut,
                   concOps, lateAdds,
                   parentCancelled, scopeSeen>>

\* Add has returned to the host.
AddReturned ==
    /\ pc = "added"
    /\ pc' = "idle"
    /\ hooks0' = hooks
    /\ lastAdd' = NoAdd
    /\ UNCHANGED <<hooks, ctxIsNil, nativeArgs, args, hookType, verification, params,
                   priorities, idx, callee, returnVal, removeList, ret, cancelled,
                   invoked, failed, hookErrs, lastIn, lastOut,
                   concOps, lateAdds,
                   parentCancelled, scopeSeen>>

\* Config.Run, from the call to the first loop test.
RunEnter(ctxNil, a, t, v) ==
    /\ pc = "idle"
    /\ ctxIsNil' = ctxNil
    /\ nativeArgs' = a
    /\ hookType' = t
    /\ verification' = v
    /\ hooks0' = hooks
    /\ lastAdd' = NoAdd
    /\ invoked' = <<>>
    /\ failed' = {}
    /\ hookErrs' = {}
    /\ lastIn' = NilMap
    /\ lastOut' = NilMap
    /\ concOps' = 0
    /\ lateAdds' = {}
    /\ parentCancelled' = FALSE
    /\ scopeSeen' = <<>>
    /\ idx' = 0
    /\ removeList' = <<>>
    /\ UNCHANGED <<hooks, callee>>
    /\ IF NilContext(ctxNil)
       THEN /\ ret' = [val |-> NilMap, err |-> "ErrNilContext"]
            /\ pc' = "done"
            /\ UNCHANGED <<args, params, priorities, returnVal, cancelled>>
       ELSE /\ args' = CastToPrimitiveTypes(a)
            /\ IF CastFails(args')
               THEN /\ ret' = [val |-> NilMap, err |-> "ErrCastFailed"]
                    /\ pc' = "done"
                    /\ cancelled' = Released("cast")
                    /\ UNCHANGED <<params, priorities, returnVal>>
               ELSE /\ params' = args'
                    /\ priorities' = SortPriorities(SlotKeys(hooks, t))
                    /\ returnVal' = Own(EmptyMap)
                    /\ pc' = "loop"
                    /\ cancelled' = FALSE
                    /\ UNCHANGED ret

\* The call h.hooks[hookType][prio](inheritedCtx, params | returnVal, opts...):
\* the HookDef is read from the registry now; a missing entry is a nil func.
LoopInvoke ==
    /\ pc = "loop"
    /\ idx < Len(priorities)
    /\ LET prio == priorities[idx + 1]
       IN IF prio \in SlotKeys(hooks, hookType)
          THEN /\ callee' = Slot(hooks, hookType)[prio]
               /\ invoked' = Append(invoked, prio)
               /\ scopeSeen' = Append(scopeSeen, InheritedScope(parentCancelled, cancelled))
               /\ lastIn' = Snap(IF idx = 0 THEN ParamsPtr ELSE returnVal, params)
               /\ pc' = "call"
               /\ UNCHANGED cancelled
          ELSE /\ pc' = "panic"
               /\ cancelled' = Released("panic")
               /\ UNCHANGED <<callee, invoked, lastIn, scopeSeen>>
    /\ UNCHANGED <<hooks, ctxIsNil, nativeArgs, args, hookType, verification, params,
                   priorities, idx, returnVal, removeList, ret,
                   hooks0, lastAdd, failed, hookErrs, lastOut,
                   concOps, lateAdds,
                   parentCancelled>>

\* The hook returns (or panics); verification and the policy switch.
HookReturn ==
    /\ pc = "call"
    /\ LET prio == priorities[idx + 1]
           in == IF idx = 0 THEN ParamsPtr ELSE returnVal
           out == HookCall(callee, in, params)
           rv == IF idx = 0 THEN returnVal ELSE out.arg
           sw == PolicySwitch(verification, idx, prio, args, rv, out.result,
                              removeList, out.params)
       IN /\ params' = out.params
          /\ callee' = "none"
          /\ hookErrs' = IF out.err THEN hookErrs \cup {prio} ELSE hookErrs
          /\ lastOut' = IF out.panics THEN lastOut ELSE Snap(out.result, out.params)
          /\ UNCHANGED <<hooks, ctxIsNil, nativeArgs, args, hookType, verification,
                         priorities, hooks0, lastAdd, invoked, lastIn,
                         concOps, lateAdds,
                         parentCancelled, scopeSeen>>
          /\ IF out.panics
             THEN /\ pc' = "panic"
                  /\ cancelled' = Released("panic")
                  /\ returnVal' = rv
                  /\ UNCHANGED <<idx, removeList, ret, failed>>
             ELSE IF Adopts(out.params, out.result, verification)
             THEN /\ returnVal' = out.result
                  /\ idx' = idx + 1
                  /\ pc' = "loop"
                  /\ UNCHANGED <<removeList, ret, cancelled, failed>>
             ELSE /\ failed' = failed \cup {prio}
                  /\ returnVal' = sw.returnVal
                  /\ removeList' = sw.removeList
                  /\ IF sw.exit
                     THEN /\ ret' = sw.ret
                          /\ pc' = "done"
                          /\ cancelled' = Released("abort")
                          /\ UNCHANGED idx
                     ELSE /\ idx' = idx + 1
                          /\ pc' = "loop"
                          /\ UNCHANGED <<ret, cancelled>>

\* After the loop: apply removeList, return returnVal.AsMap().
RunExit ==
    /\ pc = "loop"
    /\ idx >= Len(priorities)
    /\ hooks' = DeleteAll(hooks, hookType, removeList)
    /\ ret' = [val |-> ExitValue(returnVal, params), err |-> "nil"]
    /\ pc' = "done"
    /\ cancelled' = Released("exit")
    /\ UNCHANGED <<ctxIsNil, nativeArgs, args, hookType, verification, params,
                   priorities, idx, callee, returnVal, removeList,
                   hooks0, lastAdd, invoked, failed, hookErrs, lastIn, lastOut,
                   concOps, lateAdds,
                   parentCancelled, scopeSeen>>

\* The host has the result; Run's frame is gone.
RunReturned ==
    /\ pc = "done"
    /\ pc' = "idle"
    /\ UNCHANGED hooks
    /\ ctxIsNil' = FALSE
    /\ nativeArgs' = EmptyMap
    /\ args' = EmptyMap
    /\ hookType' = "onNewLogger"
    /\ verification' = PassDown
    /\ params' = EmptyMap
    /\ priorities' = <<>>
    /\ idx' = 0
    /\ callee' = "none"
    /\ returnVal' = NilPtr
    /\ removeList' = <<>>
    /\ ret' = NoRet
    /\ cancelled' = FALSE
    /\ hooks0' = hooks
    /\ lastAdd' = NoAdd
    /\ invoked' = <<>>
    /\ failed' = {}
    /\ hookErrs' = {}
    /\ lastIn' = NilMap
    /\ lastOut' = NilMap
    /\ concOps' = 0
    /\ lateAdds' = {}
    /\ parentCancelled' = FALSE
    /\ scopeSeen' = <<>>

Next ==
    \/ \E t \in Types, p \in Priorities, f \in HookKinds : Add(t, p, f)
    \/ AddReturned
    \/ \E c \in BOOLEAN, a \in NativeMaps, t \in Types, v \in Policies :
          RunEnter(c, a, t, v)
    \/ LoopInvoke
    \/ HookReturn
    \/ RunExit
    \/ RunReturned

Spec == Init /\ [][Next]_vars

\* ------------------------------------------------- interleaved goroutines
\* Config has no lock: Add and Run of other goroutines act on h.hooks while
\* this Run is suspended in a callback or between two iterations.
ConcTypes == {"onNewLogger"}
ConcPayloads == {EmptyMap, [k \in {"test"} |-> "str"]}

\* Config.Add called by another goroutine while this Run is in progress.
\* The accesses to h.hooks are not synchronised: the write takes effect
\* before or after the accesses of this Run, or, when it meets one of them
\* on the same map (this Run is not inside a callback), the runtime ends the
\* process with the fatal error "concurrent map read and map write".
ConcurrentAdd(t, p, f) ==
    /\ pc \in {"loop", "call"}
    /\ concOps < MaxConcOps
    /\ p \in SlotKeys(hooks, t) \/ NumHooks(hooks) < MaxHooks
    /\ concOps' = concOps + 1
    /\ \/ /\ hooks' = AddHook(hooks, t, p, f)
          /\ lateAdds' = IF t = hookType /\ \E i \in 1..Len(removeList) : removeList[i] = p
                         THEN lateAdds \cup {p} ELSE lateAdds
          /\ UNCHANGED pc
       \/ /\ pc = "loop"
          /\ t = hookType \/ SlotKeys(hooks, t) = {}
          /\ pc' = "fatal"
          /\ UNCHANGED <<hooks, lateAdds>>
    /\ UNCHANGED <<ctxIsNil, nativeArgs, args, hookType, verification, params,
                   priorities, idx, callee, returnVal, removeList, ret, cancelled,
                   hooks0, lastAdd, invoked, failed, hookErrs, lastIn, lastOut,
                   parentCancelled, scopeSeen>>

\* One delete(h.hooks[t], p) of the post-loop removal of a Run of another
\* goroutine. That Run put p on its removeList when the callback it found
\* there failed; whatever is registered at (t, p) by now is deleted. The
\* same race as for Add.
OtherRunRemoves(t, p) ==
    /\ pc \in {"loop", "call"}
    /\ concOps < MaxConcOps
    /\ p \in SlotKeys(hooks, t)
    /\ concOps' = concOps + 1
    /\ \/ /\ hooks' = DeleteAll(hooks, t, <<p>>)
          /\ UNCHANGED pc
       \/ /\ pc = "loop"
          /\ t = hookType
          /\ pc' = "fatal"
          /\ UNCHANGED hooks
    /\ UNCHANGED <<ctxIsNil, nativeArgs, args, hookType, verification, params,
                   priorities, idx, callee, returnVal, removeList, ret, cancelled,
                   hooks0, lastAdd, invoked, failed, hookErrs, lastIn, lastOut,
                   lateAdds, parentCancelled, scopeSeen>>

NextConc ==
    \/ \E t \in ConcTypes, p \in Priorities, f \in HookKinds : Add(t, p, f)
    \/ AddReturned
    \/ \E a \in ConcPayloads, t \in ConcTypes, v \in Policies :
          RunEnter(FALSE, a, t, v)
    \/ LoopInvoke
    \/ HookReturn
    \/ RunExit
    \/ RunReturned
    \/ \E t \in ConcTypes, p \in Priorities, f \in HookKinds : ConcurrentAdd(t, p, f)
    \/ \E t \in ConcTypes, p \in Priorities : OtherRunRemoves(t, p)

SpecConc == Init /\ [][NextConc]_vars

\* ---------------------------------------------------- cancellation of ctx
\* The owner of ctx cancels it while the chain is running. Run never reads
\* ctx.Done(), so nothing but the scope of the callbacks changes.
CancelParent ==
    /\ pc \in {"loop", "call"}
    /\ ~parentCancelled
    /\ parentCancelled' = TRUE
    /\ UNCHANGED <<hooks, pc, ctxIsNil, nativeArgs, args, hookType, verification,
                   params, priorities, idx, callee, returnVal, removeList, ret,
                   cancelled, hooks0, lastAdd, invoked, failed, hookErrs, lastIn,
                   lastOut, concOps, lateAdds, scopeSeen>>

NextCancel ==
    \/ \E t \in ConcTypes, p \in Priorities, f \in HookKinds : Add(t, p, f)
    \/ AddReturned
    \/ \E a \in ConcPayloads, t \in ConcTypes, v \in Policies :
          RunEnter(FALSE, a, t, v)
    \/ LoopInvoke
    \/ HookReturn
    \/ RunExit
    \/ RunReturned
    \/ CancelParent

SpecCancel == Init /\ [][NextCancel]_vars

\* Run is one sequential loop of the calling goroutine: a step that is
\* possible is taken, and a callback that was invoked comes back.
FairSpec ==
    /\ Init /\ [][NextCancel]_vars
    /\ WF_vars(LoopInvoke)
    /\ WF_vars(HookReturn)
    /\ WF_vars(RunExit)

TypeOK ==
    /\ pc \in {"idle", "added", "loop", "call", "done", "panic", "fatal"}
    /\ DOMAIN hooks \subseteq Types
    /\ \A t \in DOMAIN hooks :
          /\ DOMAIN hooks[t] \subseteq Priorities
          /\ \A p \in DOMAIN hooks[t] : hooks[t][p] \in HookKinds
    /\ NumHooks(hooks) <= MaxHooks
    /\ verification \in Policies
    /\ hookType \in Types
    /\ idx \in 0..Len(priorities)
    /\ callee \in HookKinds \cup {"none"}
    /\ concOps \in 0..MaxConcOps
    /\ lateAdds \subseteq Priorities
    /\ parentCancelled \in BOOLEAN
    /\ Len(scopeSeen) = Len(invoked)

\* ------------------------------------------------------------------ claims
\* Run has returned a result and no error.
ReturnedOk == pc = "done" /\ ret.err = "nil"

\* The error Run must return for its inputs, by the spec's error kinds.
ExpectedErr ==
    IF ctxIsNil THEN "ErrNilContext"
    ELSE IF CastFails(CastToPrimitiveTypes(nativeArgs)) THEN "ErrCastFailed"
    ELSE "nil"

IsAscending(seq) == \A i, j \in 1..Len(seq) : i < j => seq[i] < seq[j]

\* C1 (as claimed): a Run with a non-nil ctx and an encodable payload P on a
\* hook type without callbacks returns exactly P and no error.
C1_ZeroCallbacksIdentity ==
    (/\ pc = "done"
     /\ ~ctxIsNil
     /\ ~CastFails(CastToPrimitiveTypes(nativeArgs))
     /\ SlotKeys(hooks0, hookType) = {})
    => (ret.err = "nil" /\ ret.val = NativeOf(nativeArgs))

\* C2: within one Run the callbacks are invoked in strictly ascending
\* priority order (so each at most once), they are the first entries of the
\* sorted snapshot of the slot, and a callback is invoked only when every
\* earlier one has returned: at most one call is outstanding.
C2_AscendingOneAtATime ==
    /\ IsAscending(invoked)
    /\ pc \in {"loop", "call", "done", "panic"} /\ ~ctxIsNil =>
          /\ Len(invoked) <= Len(priorities)
          /\ invoked = SubSeq(priorities, 1, Len(invoked))
          /\ \A i \in 1..Len(invoked) : invoked[i] \in SlotKeys(hooks0, hookType)
    /\ pc = "loop" => Len(invoked) = idx
    /\ pc = "call" => Len(invoked) = idx + 1

C2_Witness ==
    /\ pc = "call"
    /\ Len(invoked) = 3
    /\ hooks0[hookType][0] # hooks0[hookType][1]

\* C3: the error Run returns is decided by ctx and the payload alone:
\* ErrNilContext for a nil ctx, ErrCastFailed for a payload that cannot be
\* encoded, and no error otherwise, whatever errors the callbacks returned
\* and whatever the policy.
C3_NoCallbackErrorReturned ==
    pc = "done" => ret.err = ExpectedErr

C3_Witness ==
    /\ ReturnedOk
    /\ verification = Abort
    /\ hookErrs # {}
    /\ failed # {}

\* C4: under Abort, a verification failure ends the Run in the same step:
\* the failing callback is the last one invoked, callbacks of higher
\* priority in the snapshot are not invoked, and Run has returned.
C4_AbortStopsChain ==
    (verification = Abort /\ failed # {}) =>
        /\ pc = "done"
        /\ failed = {invoked[Len(invoked)]}
        /\ Len(invoked) = idx + 1
        /\ \A i \in 1..Len(priorities) :
              priorities[i] > invoked[Len(invoked)] => \A j \in 1..Len(invoked) : invoked[j] # priorities[i]

C4_Witness ==
    /\ pc = "done"
    /\ verification = Abort
    /\ failed # {}
    /\ Len(invoked) < Len(priorities)

\* C5: under Remove, when Run has returned, the slot of the hook type holds
\* exactly the priorities of the slot at the call that did not fail
\* verification, each with the callback it had.
C5_RemoveDeletesExactlyFailed ==
    (ReturnedOk /\ verification = Remove) =>
        /\ SlotKeys(hooks, hookType) = SlotKeys(hooks0, hookType) \ failed
        /\ \A p \in SlotKeys(hooks, hookType) : hooks[hookType][p] = hooks0[hookType][p]

C5_Witness ==
    /\ ReturnedOk
    /\ verification = Remove
    /\ Cardinality(failed) = 2
    /\ SlotKeys(hooks, hookType) # {}

\* C6: under Remove, the registry is untouched while the chain loop runs,
\* and a Run that returns has invoked every priority of the snapshot taken
\* before the loop, those after a failing callback included.
C6_RemoveAfterFullChain ==
    verification = Remove =>
        /\ pc \in {"loop", "call", "panic"} => hooks = hooks0
        /\ ReturnedOk =>
              /\ invoked = SortPriorities(SlotKeys(hooks0, hookType))
              /\ invoked = priorities

C6_Witness ==
    /\ pc = "call"
    /\ verification = Remove
    /\ failed # {}
    /\ hooks = hooks0

\* C7: under Ignore, the registry after Run is the registry before Run.
C7_IgnoreKeepsRegistry ==
    (pc = "done" /\ verification = Ignore) => hooks = hooks0

C7_Witness ==
    /\ ReturnedOk
    /\ verification = Ignore
    /\ Cardinality(failed) >= 2

\* C8: after Add(t, p, f) the entry at (t, p) is f, and every other
\* (type, priority) entry is present exactly when it was before, with the
\* callback it had.
C8_AddReplacesOneEntry ==
    lastAdd.valid =>
        /\ lastAdd.p \in SlotKeys(hooks, lastAdd.t)
        /\ hooks[lastAdd.t][lastAdd.p] = lastAdd.f
        /\ \A t \in Types, p \in Priorities :
              <<t, p>> # <<lastAdd.t, lastAdd.p>> =>
                  /\ p \in SlotKeys(hooks, t) <=> p \in SlotKeys(hooks0, t)
                  /\ p \in SlotKeys(hooks, t) => hooks[t][p] = hooks0[t][p]

\* an Add that replaced a different callback, next to another entry
C8_Witness ==
    /\ lastAdd.valid
    /\ lastAdd.p \in SlotKeys(hooks0, lastAdd.t)
    /\ hooks0[lastAdd.t][lastAdd.p] # lastAdd.f
    /\ Cardinality(SlotKeys(hooks, lastAdd.t)) >= 2

\* C9: a Run with a nil ctx returns ErrNilContext and a nil map, invokes no
\* callback and leaves the registry as it was.
C9_NilContext ==
    (pc = "done" /\ ctxIsNil) =>
        /\ ret = [val |-> NilMap, err |-> "ErrNilContext"]
        /\ invoked = <<>>
        /\ hooks = hooks0

C9_Witness ==
    /\ pc = "done"
    /\ ctxIsNil
    /\ SlotKeys(hooks, hookType) # {}
    /\ verification = Remove
    /\ CastFails(CastToPrimitiveTypes(nativeArgs))

\* C10 (as claimed): the result of a Run that returns no error is not null,
\* and it is the initial payload when the chain ends with a null value.
C10_NullChainYieldsInput ==
    ReturnedOk =>
        /\ ~ret.val.isNil
        /\ returnVal.obj = "nil" => ret.val = NativeOf(nativeArgs)

\* C10 (amended): the result of a Run that returns no error is not null;
\* when the chain ends with a null value the result is the empty map.
C10_NullChainYieldsEmpty ==
    ReturnedOk =>
        /\ ~ret.val.isNil
        /\ returnVal.obj = "nil" => ret.val = NativeOf(EmptyMap)

C10_Witness ==
    /\ ReturnedOk
    /\ returnVal.obj = "nil"
    /\ verification = PassDown
    /\ nativeArgs # EmptyMap
\* The four policies of the spec.
NamedPolicies == {PassDown, Ignore, Abort, Remove}

\* The slot Run was called on held exactly one callback, of one of the kinds.
SingleHook(kinds) ==
    /\ Cardinality(SlotKeys(hooks0, hookType)) = 1
    /\ \A p \in SlotKeys(hooks0, hookType) : hooks0[hookType][p] \in kinds

\* The payload as the codec normalises it (durations become numbers).
Normalised == CastToPrimitiveTypes(nativeArgs)
Encodable == ~(Cardinality(DOMAIN Normalised) # 0 /\ NewStructFails(Normalised))

\* C11 (as claimed): with one callback that returns null, for every payload
\* P, Run returns no error and P under Ignore, Remove and Abort, the empty
\* map under PassDown.
C11_SingleNullReturnsInput ==
    (/\ pc = "done"
     /\ ~ctxIsNil
     /\ verification \in NamedPolicies
     /\ SingleHook({"null", "err"}))
    => /\ ret.err = "nil"
       /\ ret.val = IF verification = PassDown THEN NativeOf(EmptyMap)
                    ELSE NativeOf(nativeArgs)

\* C11 (amended): with one callback that returns null, for every payload P
\* that can be encoded, Run returns no error and the normalised P (durations
\* as numbers) under Ignore, Remove and Abort, the empty map under PassDown;
\* a payload that cannot be encoded gives ErrCastFailed.
C11_SingleNullReturnsNormalised ==
    (/\ pc = "done"
     /\ ~ctxIsNil
     /\ verification \in NamedPolicies
     /\ SingleHook({"null", "err"}))
    => IF Encodable
       THEN /\ ret.err = "nil"
            /\ ret.val = IF verification = PassDown THEN NativeOf(EmptyMap)
                         ELSE NativeOf(Normalised)
       ELSE ret.err = "ErrCastFailed"

C11_Witness ==
    /\ ReturnedOk
    /\ verification = Ignore
    /\ SingleHook({"null"})
    /\ nativeArgs = [k \in {"test"} |-> "dur"]
    /\ ret.val.m = [k \in {"test"} |-> "num"]

\* C12 (as claimed): with one callback that returns its input unchanged, Run
\* returns the input payload and no error, for every payload and policy, and
\* the registry is unchanged.
C12_SingleEchoIdentity ==
    (/\ pc = "done"
     /\ ~ctxIsNil
     /\ verification \in NamedPolicies
     /\ SingleHook({"echo"}))
    => /\ ret.err = "nil"
       /\ ret.val = NativeOf(nativeArgs)
       /\ hooks = hooks0

\* C12 (amended): with one callback that returns its input unchanged, for
\* every payload that can be encoded and every policy, Run returns the
\* normalised payload (durations as numbers) and no error; a payload that
\* cannot be encoded gives ErrCastFailed; the registry is unchanged.
C12_SingleEchoNormalised ==
    (/\ pc = "done"
     /\ ~ctxIsNil
     /\ verification \in NamedPolicies
     /\ SingleHook({"echo"}))
    => /\ hooks = hooks0
       /\ IF Encodable
          THEN ret.err = "nil" /\ ret.val = NativeOf(Normalised)
          ELSE ret.err = "ErrCastFailed"

C12_Witness ==
    /\ ReturnedOk
    /\ verification = Remove
    /\ SingleHook({"echo"})
    /\ invoked # <<>>
    /\ nativeArgs = [k \in Keys |-> "str"]
    /\ ret.val.m = nativeArgs
\* The hook invoked last has returned, and lastIn and lastOut are its input
\* and its output.
LastHookReturned ==
    /\ pc \in {"loop", "done"}
    /\ invoked # <<>>

\* C13 (as claimed): under each of the four policies, a callback whose output
\* is non-null and has exactly the top-level keys of the input it received
\* is never treated as a verification failure.
C13_SameKeysNeverFails ==
    (/\ LastHookReturned
     /\ verification \in NamedPolicies
     /\ ~lastIn.isNil
     /\ ~lastOut.isNil
     /\ DOMAIN lastOut.m = DOMAIN lastIn.m)
    => invoked[Len(invoked)] \notin failed

\* C14 (as claimed): under Ignore, Abort or Remove the input handed to every
\* callback and the result Run returns are non-null and have no top-level
\* key that the initial payload lacks.
C14_NoForeignKeys ==
    verification \in {Ignore, Abort, Remove} =>
        /\ pc = "call" =>
              /\ ~lastIn.isNil
              /\ DOMAIN lastIn.m \subseteq DOMAIN nativeArgs
        /\ ReturnedOk =>
              /\ ~ret.val.isNil
              /\ DOMAIN ret.val.m \subseteq DOMAIN nativeArgs

\* C15: under PassDown every output is adopted: each callback after the
\* first receives exactly what the previous one returned, and a Run that
\* returns has invoked the whole snapshot, has removed nothing and returns
\* the decoded output of the last callback (a null output decodes to the
\* empty map).
C15_PassDownAdoptsAll ==
    verification = PassDown =>
        /\ failed = {}
        /\ removeList = <<>>
        /\ pc \in {"loop", "call"} => hooks = hooks0
        /\ pc = "call" /\ idx > 0 => lastIn = lastOut
        /\ ReturnedOk =>
              /\ invoked = priorities
              /\ hooks = hooks0
              /\ invoked # <<>> => ret.val.m = lastOut.m

\* two hooks, the second adds a key to the first one's output, which is
\* not the input payload
C15_Witness ==
    /\ ReturnedOk
    /\ verification = PassDown
    /\ Len(invoked) = 2
    /\ nativeArgs = [k \in {"test1"} |-> "str"]
    /\ ret.val.m = [k \in Keys |-> "str"]
    /\ lastIn.m = [k \in {"test"} |-> "str"]
\* C16: with a hook returning null at priority 0 and one returning
\* {test: test} at priority 1, Run({}, onNewLogger, Remove) returns {} and
\* no error, and exactly one callback stays registered for onNewLogger.
C16_RemoveLeavesOne ==
    (/\ pc = "done"
     /\ ~ctxIsNil
     /\ hookType = "onNewLogger"
     /\ verification = Remove
     /\ nativeArgs = EmptyMap
     /\ Slot(hooks0, "onNewLogger") = [p \in {0, 1} |-> IF p = 0 THEN "null" ELSE "const"])
    => /\ ret = [val |-> NativeOf(EmptyMap), err |-> "nil"]
       /\ Cardinality(SlotKeys(hooks, "onNewLogger")) = 1

\* C16 witness: that Run has returned; the null output of priority 0 was
\* adopted against the empty payload, priority 1 failed and was removed.
C16_Witness ==
    /\ ReturnedOk
    /\ hookType = "onNewLogger"
    /\ verification = Remove
    /\ nativeArgs = EmptyMap
    /\ Slot(hooks0, "onNewLogger") = [p \in {0, 1} |-> IF p = 0 THEN "null" ELSE "const"]
    /\ invoked = <<0, 1>>
    /\ failed = {1}
    /\ Slot(hooks, "onNewLogger") = [p \in {0} |-> "null"]
\* C19: a Run that derived the child scope (ctx was not nil) has cancelled
\* it when it has returned, by whichever path: the ErrCastFailed return, a
\* return of the Abort branch, the return after the loop.
C19_ScopeReleased ==
    (pc = "done" /\ ~ctxIsNil) => cancelled

\* a return of the Abort branch, at the second hook of a chain
C19_Witness ==
    /\ pc = "done"
    /\ verification = Abort
    /\ failed # {}
    /\ idx = 1
    /\ cancelled

\* C20: a Run with a non-nil ctx on a payload that cannot be encoded has
\* returned ErrCastFailed and a nil map at once: it is never inside the
\* loop, no callback is invoked and the registry is as it was.
C20_CastFailedAtOnce ==
    (/\ pc \in {"loop", "call", "done", "panic"}
     /\ ~ctxIsNil
     /\ ~Encodable)
    => /\ pc = "done"
       /\ ret = [val |-> NilMap, err |-> "ErrCastFailed"]
       /\ invoked = <<>>
       /\ hooks = hooks0

C20_Witness ==
    /\ pc = "done"
    /\ ret.err = "ErrCastFailed"
    /\ verification = Remove
    /\ \E p \in SlotKeys(hooks, hookType) : hooks[hookType][p] = "null"
\* A Run that reached the call of a priority whose entry is gone.
MissingEntryCall == pc = "panic" /\ Len(invoked) = idx

\* C17 (as claimed): when Add or the deletions of another Run interleave with
\* a Run, the Run invokes at every priority of its snapshot the callback that
\* was registered there when the snapshot was taken, and never calls an entry
\* that is no longer present.
C17_RunsAgainstSnapshot ==
    /\ pc = "call" => callee = Slot(hooks0, hookType)[priorities[idx + 1]]
    /\ ~MissingEntryCall

\* The set of priorities on removeList.
RemoveSet == {removeList[i] : i \in 1..Len(removeList)}

\* C18: the post-loop removal deletes by key: after it no entry is left at a
\* priority whose callback failed under Remove, whatever callback is
\* registered there by then, and the entries at the priorities that are not
\* on the removal list are left as they were.
C18_RemoveByKey ==
    [][(pc = "loop" /\ pc' = "done") =>
         \A p \in Priorities :
            IF p \in RemoveSet \/ (verification = Remove /\ p \in failed)
            THEN p \notin SlotKeys(hooks', hookType)
            ELSE /\ p \in SlotKeys(hooks', hookType) <=> p \in SlotKeys(hooks, hookType)
                 /\ p \in SlotKeys(hooks, hookType) =>
                       Slot(hooks', hookType)[p] = Slot(hooks, hookType)[p]]_vars

\* C18 witness: a Run under Remove has returned; a callback
\* was Added at a failed priority after its removal was scheduled and is gone,
\* and an entry at a priority that did not fail is still registered.
C18_Witness ==
    /\ ReturnedOk
    /\ verification = Remove
    /\ \E p \in lateAdds \cap failed : p \notin SlotKeys(hooks, hookType)
    /\ \E q \in SlotKeys(hooks, hookType) : q \notin failed
\* C21 (as claimed): under Ignore, Abort or Remove the output of a callback
\* is adopted as the chain value exactly when it is non-null and each of its
\* top-level keys is a key of the initial payload of the Run.
C21_AdoptedIffKeysOfInitialPayload ==
    (/\ LastHookReturned
     /\ verification \in {Ignore, Abort, Remove})
    => (invoked[Len(invoked)] \notin failed
          <=> (/\ ~lastOut.isNil
               /\ DOMAIN lastOut.m \subseteq DOMAIN Normalised))
\* The value the chain stands at once the hook invoked last has returned,
\* if failing outputs are dropped: the encoded initial payload before any
\* hook, the output of the last hook if it passed, its input if it failed.
ChainValue ==
    IF invoked = <<>> THEN NativeOf(Normalised)
    ELSE IF invoked[Len(invoked)] \notin failed THEN lastOut
    ELSE lastIn

\* C22 (as claimed): under Ignore or Remove each callback receives the last
\* output that passed verification, or the initial payload if none passed
\* yet, never the output of a failing callback; and a Run that has invoked
\* its chain returns the last passing output, or the initial payload.
C22_FailingOutputDropped ==
    [][(verification = Ignore \/ verification = Remove) =>
         (/\ (pc = "loop" /\ pc' = "call") => lastIn' = ChainValue
          /\ (pc = "loop" /\ pc' = "done" /\ invoked # <<>>) => ret'.val.m = ChainValue.m)]_vars
\* C23 (as claimed): a Run under Abort that invoked a callback returns no
\* error and leaves the registry as it was; its result is the (encoded)
\* input payload when the first callback failed, the output of the callback
\* before the failing one when a later callback failed, and the output of
\* the last callback when none failed.
C23_AbortResult ==
    (/\ pc = "done"
     /\ ~ctxIsNil
     /\ Encodable
     /\ verification = Abort
     /\ invoked # <<>>)
    => /\ ret.err = "nil"
       /\ hooks = hooks0
       /\ ret.val.m = ChainValue.m
\* A panic raised inside the callback invoked last is passing through Run.
CallbackPanicked == pc = "panic" /\ Len(invoked) = idx + 1

\* C24 (as claimed): a panic of a callback never passes through Run; Run
\* takes the step as one that returned (null, error) and goes on by the
\* policy.
C24_PanicNeverPropagates == ~CallbackPanicked
\* C25: a callback invoked after ctx was cancelled receives a scope that is
\* already cancelled, and the cancellation does not end the chain: the step
\* that returns after the loop is taken with the whole snapshot invoked
\* (under PassDown, Ignore, Remove and the other values; under Abort the
\* chain ends at the first failure, as without cancellation).
C25_CancelledScopeChainGoesOn ==
    [][(parentCancelled =>
          /\ (pc = "loop" /\ pc' = "call") => scopeSeen'[Len(scopeSeen')]
          /\ (pc = "loop" /\ pc' = "done") => invoked = priorities
          /\ (pc = "call" /\ pc' = "done") =>
                (verification = Abort /\ invoked[Len(invoked)] \in failed'))]_vars

\* C25 witness: ctx was cancelled after the first callback was invoked; the
\* second was invoked with a cancelled scope and Run returned normally.
C25_Witness ==
    /\ ReturnedOk
    /\ parentCancelled
    /\ scopeSeen = <<FALSE, TRUE>>
    /\ invoked = priorities
\* C26: from its call to its return a Run on hook type t adds no entry and
\* changes none; an entry that is gone is one of type t whose priority
\* failed verification under Remove. So under PassDown, Ignore, Abort and
\* the other values, and for the other hook types, the registry is as it
\* was when Run was called.
C26_RunOnlyDeletesFailed ==
    pc \in {"loop", "call", "done", "panic"} =>
       \A t \in Types :
          /\ SlotKeys(hooks, t) \subseteq SlotKeys(hooks0, t)
          /\ \A p \in SlotKeys(hooks, t) : Slot(hooks, t)[p] = Slot(hooks0, t)[p]
          /\ \A p \in SlotKeys(hooks0, t) \ SlotKeys(hooks, t) :
                /\ t = hookType
                /\ verification = Remove
                /\ p \in failed

\* C26 witness: a Run under Remove has deleted a failed priority of its
\* type and kept another one, with a callback registered for the other type.
C26_Witness ==
    /\ ReturnedOk
    /\ verification = Remove
    /\ \E p \in failed : p \notin SlotKeys(hooks, hookType)
    /\ SlotKeys(hooks, hookType) # {}
    /\ \E t \in Types : t # hookType /\ SlotKeys(hooks, t) # {}
\* C27: a Run never makes more invocations than its snapshot has
\* priorities, and exactly that many once it has returned under PassDown,
\* Ignore or Remove; and a Run that has entered its loop goes on to return,
\* unless a callback does not come back but panics.
C27_RunTerminates ==
    /\ [](/\ Len(invoked) <= Len(priorities)
          /\ (ReturnedOk /\ verification \in {PassDown, Ignore, Remove})
                => Len(invoked) = Len(priorities))
    /\ ((pc \in {"loop", "call"}) ~> (pc = "done" \/ CallbackPanicked))

\* C27 witness: a Run under Ignore has returned after three invocations,
\* each of which failed verification.
C27_Witness ==
    /\ ReturnedOk
    /\ verification = Ignore
    /\ Len(invoked) = 3
    /\ failed = {0, 1, 2}
\* C28: the policy switch is never entered with PassDown (no priority is
\* recorded as failed under it), and under a policy value outside the four
\* a failing output is adopted: the next callback receives exactly what the
\* previous one returned, the whole snapshot is invoked, the result is the
\* decoded output of the last callback, and nothing is removed.
C28_DefaultAdoptsLikePassDown ==
    /\ verification = PassDown => failed = {}
    /\ verification = OtherPolicy =>
          /\ removeList = <<>>
          /\ pc \in {"loop", "call", "done", "panic"} => hooks = hooks0
          /\ pc = "call" /\ idx > 0 => lastIn = lastOut
          /\ ReturnedOk =>
                /\ invoked = priorities
                /\ invoked # <<>> => ret.val.m = lastOut.m

\* C28 witness: under a policy value outside the four, the first callback
\* failed verification with {test: test} against an empty payload, and the
\* second received that output.
C28_Witness ==
    /\ ReturnedOk
    /\ verification = OtherPolicy
    /\ nativeArgs = EmptyMap
    /\ Len(invoked) = 2
    /\ invoked[1] \in failed
    /\ lastIn.m = [k \in {"test"} |-> "str"]
====
